---- MODULE Spec2Model ----
(***************************************************************************)
(* A model of schemdraw's drawing session (schemdraw/schemdraw.py,         *)
(* class Drawing) and of its two canvas backends (backends/svg.py and      *)
(* backends/mpl.py, class Figure).                                         *)
(*                                                                         *)
(* Numbers.  User-space lengths are integers counting tenths of a drawing  *)
(* unit (the raster backend pads by 0.1 unit = 1).  inches_per_unit is     *)
(* counted in hundredths of an inch (0.5 = 50).  The vector backend's      *)
(* scale is counted in tenths (64.8 * 0.5 = 32.4 = 324), so its device     *)
(* lengths are hundredths of a point (5 = 500, pad 2 = 200).               *)
(*                                                                         *)
(* Exceptions.  A handler that raises stops where the exception is raised; *)
(* the assignments made before that point stay.  The variable err holds    *)
(* the exception of the last call ("none" when it returned).               *)
(***************************************************************************)
EXTENDS Integers, Sequences, FiniteSets, TLC

VARIABLES
    canvas,        \* Drawing.canvas: the session's canvas setting
    outfile,       \* Drawing.outfile is not None
    elements,      \* Drawing.elements: the placed elements, in insertion order
    anchors,       \* Drawing.anchors: the set of <<name, point>> pairs
    dwgparams,     \* Drawing.dwgparams: unit, inches_per_unit, bgcolor
    here,          \* Drawing.here: the cursor
    theta,         \* Drawing.theta: the heading, in degrees
    _state,        \* Drawing._state: the push/pop stack of <<here, theta>>
    _interactive,  \* Drawing._interactive
    fig,           \* Drawing.fig, or the Figure under test of a backend
    mplFigure,     \* module level: the raster backend was imported
    default_canvas,\* module level: default_canvas.default_canvas
    lastop,        \* the last call made: [op |-> name, ...arguments]
    err,           \* the exception the last call raised, or "none"
    ret,           \* what the last call returned
    built          \* the number of Figure objects constructed so far

vars == <<canvas, outfile, elements, anchors, dwgparams, here, theta, _state,
          _interactive, fig, mplFigure, default_canvas, lastop, err, ret, built>>

session == <<canvas, outfile, elements, anchors, dwgparams, here, theta,
             _state, _interactive>>

(***************************************************************************)
(* Floating-point values the code relies on.                               *)
(***************************************************************************)
Inf == 1000000          \* math.inf; every finite value of the model is smaller
NaN == 3000000          \* float('nan'): the pen-up marker, and inf - inf

IsNaN(x) == x = NaN
IsInf(x) == x # NaN /\ (x >= Inf \/ x <= -Inf)
IsFinite(x) == ~IsNaN(x) /\ ~IsInf(x)

\* Python's min(a, b) and max(a, b) as the code calls them: the first argument
\* is returned unless the second compares smaller (larger); a comparison with
\* NaN is false.
PyMin(a, b) == IF IsNaN(a) \/ IsNaN(b) THEN a ELSE IF b < a THEN b ELSE a
PyMax(a, b) == IF IsNaN(a) \/ IsNaN(b) THEN a ELSE IF b > a THEN b ELSE a

\* a - b, a + b and a * k (k a positive finite factor) in IEEE arithmetic.
FSub(a, b) ==
    IF IsNaN(a) \/ IsNaN(b) THEN NaN
    ELSE IF IsInf(a) /\ IsInf(b) THEN (IF (a > 0) = (b > 0) THEN NaN ELSE a)
    ELSE IF IsInf(a) THEN a
    ELSE IF IsInf(b) THEN -b
    ELSE a - b

FAdd(a, b) ==
    IF IsNaN(a) \/ IsNaN(b) THEN NaN
    ELSE IF IsInf(a) /\ IsInf(b) THEN (IF (a > 0) = (b > 0) THEN a ELSE NaN)
    ELSE IF IsInf(a) THEN a
    ELSE IF IsInf(b) THEN b
    ELSE a + b

FMul(a, k) == IF IsFinite(a) THEN a * k ELSE a

FNeg(a) == IF IsNaN(a) THEN NaN ELSE -a

(***************************************************************************)
(* Bounding boxes: <<xmin, ymin, xmax, ymax>>.                             *)
(***************************************************************************)
EmptyBBox == <<Inf, Inf, -Inf, -Inf>>
NoBBox == <<>>                              \* bbox=None of the raster Figure

NoFig == [kind |-> "none"]                  \* Drawing.fig is None


(***************************************************************************)
(* The vector backend: backends/svg.py.  A Figure is a record; a node is   *)
(* [tag, d, style], d being the sequence of tokens of its geometry.        *)
(***************************************************************************)
SvgScaleFactor == 648   \* 64.8, in tenths
MinPx == 500            \* max(5, ...), in hundredths
SvgPad == 200           \* pad = 2, in hundredths

Tok(t, x, y) == [t |-> t, x |-> x, y |-> y]
Node(tag, d, style) == [tag |-> tag, d |-> d, style |-> style]

\* getstyle(): the style string, as the record of its properties ("" and 0
\* stand for a property left out).
getstyle(color, ls, lw, capstyle, joinstyle, fill) ==
    [stroke |-> color,
     fill |-> IF fill = "None" THEN "none" ELSE fill,
     width |-> lw,
     dash |-> CASE ls \in {"--", "dashed"} -> "7.4,3.2"
                [] ls \in {":", "dotted"} -> "2,3.3"
                [] ls \in {"-.", "dashdot"} -> "12.8,3.2,2,3.2"
                [] OTHER -> "",
     linecap |-> IF capstyle = "projecting" THEN "square" ELSE capstyle,
     linejoin |-> joinstyle]

\* The attributes arc() and text() set without getstyle().
PlainStyle(color, lw) ==
    [stroke |-> color, fill |-> "none", width |-> lw, dash |-> "",
     linecap |-> "", linejoin |-> ""]

SvgSetBBox(f, bbox) ==
    [f EXCEPT !.bbox = bbox,
              !.pxwidth = PyMax(MinPx, FMul(FSub(bbox[3], bbox[1]), f.scale)),
              !.pxheight = PyMax(MinPx, FMul(FSub(bbox[4], bbox[2]), f.scale))]

SvgFigure(bbox, inches_per_unit, showframe) ==
    SvgSetBBox([kind |-> "svg",
                svgelements |-> <<>>,
                showframe |-> showframe,
                scale |-> (SvgScaleFactor * inches_per_unit) \div 100,
                bbox |-> bbox,
                pxwidth |-> 0,
                pxheight |-> 0,
                bgcolor |-> ""], bbox)

xform(f, x, y) == <<FMul(x, f.scale), FMul(FNeg(y), f.scale)>>

SvgBgcolor(f, color) == [f EXCEPT !.bgcolor = color]

SvgAppend(f, zorder, node) ==
    [f EXCEPT !.svgelements = Append(@, <<zorder, node>>)]

\* d.endswith('M '): the path data ends with a move command that has no
\* coordinates yet.
EndsWithM(d) == Len(d) > 0 /\ d[Len(d)].t = "M"

\* The loop of plot() over zip(x[1:], y[1:]).
RECURSIVE PlotLoop(_, _, _, _)
PlotLoop(f, x, y, d) ==
    IF x = <<>> \/ y = <<>> THEN d
    ELSE IF IsNaN(Head(x)) \/ IsNaN(Head(y))
         THEN PlotLoop(f, Tail(x), Tail(y), Append(d, Tok("M", 0, 0)))
         ELSE LET d1 == IF ~EndsWithM(d) THEN Append(d, Tok("L", 0, 0)) ELSE d
                  p == xform(f, Head(x), Head(y))
              IN PlotLoop(f, Tail(x), Tail(y), Append(d1, Tok("xy", p[1], p[2])))

\* d.strip() removes the blank that ends the string, never a token.
PlotData(f, x, y) ==
    LET p0 == xform(f, x[1], y[1])
    IN PlotLoop(f, Tail(x), Tail(y), <<Tok("Mxy", p0[1], p0[2])>>)

SvgPlot(f, x, y, st, zorder) ==
    SvgAppend(f, zorder,
              Node("path", PlotData(f, x, y),
                   getstyle(st.color, st.ls, st.lw, st.capstyle, st.joinstyle, st.fill)))

\* text(): the node is built by svgtext.text_tosvg / ziamath, outside this
\* repository's sources here; the model keeps its arguments.
SvgText(f, s, x, y, rotation, halign, valign, zorder) ==
    IF s = "" THEN f
    ELSE LET p == xform(f, x, y)
         IN SvgAppend(f, zorder,
                      Node("text", <<Tok(s, p[1], p[2]), Tok(halign, rotation, 0),
                                     Tok(valign, 0, 0)>>,
                           PlainStyle("black", 0)))

RECURSIVE PolyPoints(_, _)
PolyPoints(f, verts) ==
    IF verts = <<>> THEN <<>>
    ELSE LET p == xform(f, Head(verts)[1], Head(verts)[2])
         IN <<Tok("xy", p[1], p[2])>> \o PolyPoints(f, Tail(verts))

SvgPoly(f, verts, closed, st, zorder) ==
    IF ~closed
    THEN SvgPlot(f, [i \in 1..Len(verts) |-> verts[i][1]],
                    [i \in 1..Len(verts) |-> verts[i][2]], st, zorder)
    ELSE SvgAppend(f, zorder,
                   Node("polygon", PolyPoints(f, verts),
                        getstyle(st.color, st.ls, st.lw, st.capstyle, st.joinstyle,
                                 st.fill)))

SvgCircle(f, center, radius, st, zorder) ==
    LET p == xform(f, center[1], center[2])
    IN SvgAppend(f, zorder,
                 Node("circle", <<Tok("c", p[1], p[2]), Tok("r", radius * f.scale, 0)>>,
                      getstyle(st.color, st.ls, st.lw, "", "", st.fill)))

\* Point.rotate(theta), and the cosine and sine of theta, for the directions
\* along the axes.
Rot(p, t) == CASE t = 0 -> p
               [] t = -90 -> <<p[2], -p[1]>>
               [] t = 90 -> <<-p[2], p[1]>>
               [] OTHER -> <<-p[1], -p[2]>>
Cos(t) == CASE t = 0 -> 1 [] t = -180 -> -1 [] OTHER -> 0
Sin(t) == CASE t = 90 -> 1 [] t = -90 -> -1 [] OTHER -> 0

\* arrow() from the point where its arguments are in device units, for
\* dx = 0 or dy = 0: two nodes of the same z-order, the head and the shaft.
ArrowNodes(f, p, sdx, sdy, hw, hl, color, lw, zorder) ==
    LET fullen == (IF sdx < 0 THEN -sdx ELSE sdx) + (IF sdy < 0 THEN -sdy ELSE sdy)
        t == -(CASE sdy = 0 /\ sdx >= 0 -> 0 [] sdy > 0 -> 90 [] sdy < 0 -> -90
                 [] OTHER -> 180)
        at(q) == <<Rot(q, t)[1] + p[1], Rot(q, t)[2] + p[2]>>
        finc == at(<<fullen - hl, 0>>)
        fin1 == at(<<fullen - hl, hw \div 2>>)
        fin2 == at(<<fullen - hl, -(hw \div 2)>>)
        head == <<p[1] + sdx - lw * 100 * Cos(t), p[2] - sdy - lw * 100 * Sin(t)>>
        et1 == Node("path", <<Tok("M", head[1], head[2]), Tok("L", fin1[1], fin1[2]),
                              Tok("LZ", fin2[1], fin2[2])>>,
                    getstyle(color, "", 0, "butt", "miter", color))
        et2 == Node("path", <<Tok("M", finc[1], finc[2]), Tok("LZ", p[1], p[2])>>,
                    getstyle(color, "", lw, "butt", "miter", color))
    IN SvgAppend(SvgAppend(f, zorder, et1), zorder, et2)

\* arrow(x, y, dx, dy, headwidth, headlength, color, lw): the arguments are
\* brought to device units first.
SvgArrow(f, x, y, dx, dy, headwidth, headlength, color, lw, zorder) ==
    ArrowNodes(f, xform(f, x, y), dx * f.scale, dy * f.scale,
               headwidth * f.scale, headlength * f.scale, color, lw, zorder)

\* The trigonometry of arc(), for angles that are whole quarter turns, in
\* degrees: cosine, sine, and atan2 of a vector along an axis.
CosD(d) == CASE d % 360 = 0 -> 1 [] d % 360 = 180 -> -1 [] OTHER -> 0
SinD(d) == CASE d % 360 = 90 -> 1 [] d % 360 = 270 -> -1 [] OTHER -> 0
ATan2(y, x) == CASE y = 0 /\ x > 0 -> 0
                 [] y > 0 -> 90
                 [] y < 0 -> -90
                 [] OTHER -> 180
Abs(x) == IF x < 0 THEN -x ELSE x

\* A variant of the loop that leaves t1 as it is.
NotRaised(t1, t2) == t1

\* while t1 < t2: t1 += 2*math.pi
RECURSIVE Raised(_, _)
Raised(t1, t2) == IF t1 < t2 THEN Raised(t1 + 360, t2) ELSE t1

ArcHeadLength == 25     \* headlength = .25, in hundredths of a unit
ArcHeadWidth == 15      \* headwidth = .15

\* The arrowhead of arc(): the call of self.arrow() and the lines before it.
\* arrow is "ccw" or anything else that is not None.
ArcArrow(f, center, width, height, theta1, theta2, angle, color, zorder, arrow) ==
    LET th2 == ATan2(width * SinD(theta2), height * CosD(theta2))
        th1 == ATan2(width * SinD(theta1), height * CosD(theta1))
        ccw == arrow = "ccw"
        th == IF ccw THEN th2 ELSE th1
        dx == IF ccw THEN CosD(th2 + 90) ELSE -CosD(th1 + 90)
        dy == IF ccw THEN SinD(theta2 + 90) ELSE -SinD(th1 + 90)
        off == Rot(<<(width \div 2) * CosD(th), (height \div 2) * SinD(th)>>,
                   IF angle % 360 = 270 THEN -90 ELSE angle % 360)
        xy == <<center[1] + off[1], center[2] + off[2]>>
        darrow == Rot(<<dx, dy>>, IF angle % 360 = 270 THEN -90 ELSE angle % 360)
        hl == (ArcHeadLength * f.scale) \div 10
        hw == (ArcHeadWidth * f.scale) \div 10
    IN ArrowNodes(f, xform(f, xy[1], xy[2]), darrow[1] * hl, darrow[2] * hl,
                  hw, hl, color, 1, zorder)

\* arc(center, width, height, theta1, theta2, angle, color, lw, zorder, arrow):
\* an ellipse node when start and end are less than 0.1 apart, else a path
\* node with one elliptical-arc command; then the arrowhead, if asked for.
SvgArc(f, center, width, height, theta1, theta2, angle, color, lw, zorder, arrow) ==
    LET c == xform(f, center[1], center[2])
        w == width * f.scale
        h == height * f.scale
        a == -angle
        t2 == ATan2(w * SinD(-theta2), h * CosD(-theta2))
        t1 == Raised(ATan2(w * SinD(-theta1), h * CosD(-theta1)), t2)
        px(t) == c[1] + (w \div 2) * CosD(t) * CosD(a) - (h \div 2) * SinD(t) * SinD(a)
        py(t) == c[2] + (w \div 2) * CosD(t) * SinD(a) + (h \div 2) * SinD(t) * CosD(a)
        dx == px(t1) - px(t2)
        dy == py(t1) - py(t2)
        ellipse == Node("ellipse",
                        <<Tok("c", c[1], c[2]), Tok("r", w \div 2, h \div 2)>>
                        \o (IF a # 0 THEN <<Tok("rotate", a, 0)>> ELSE <<>>),
                        PlainStyle(color, lw))
        path == Node("path",
                     <<Tok("M", px(t2), py(t2)), Tok("a", w \div 2, h \div 2),
                       Tok("angle", a, 0),
                       Tok("flags", IF Abs(t2 - t1) >= 180 THEN 1 ELSE 0, 1),
                       Tok("d", dx, dy)>>,
                     PlainStyle(color, lw))
        f1 == SvgAppend(f, zorder, IF Abs(dx) < 10 /\ Abs(dy) < 10 THEN ellipse ELSE path)
    IN IF arrow = "None" THEN f1
       ELSE ArcArrow(f1, center, width, height, theta1, theta2, angle, color, zorder,
                     arrow)

\* A variant that puts an item before the items of equal key.
InsertBeforeEqual(s, e) ==
    LET k == Cardinality({i \in 1..Len(s) : s[i][1] < e[1]})
    IN SubSeq(s, 1, k) \o <<e>> \o SubSeq(s, k + 1, Len(s))

\* sorted(self.svgelements, key=lambda x: x[0]): Python's sort is stable; each
\* pair goes after every pair whose key is not larger.
InsertByKey(s, e) ==
    LET k == Cardinality({i \in 1..Len(s) : s[i][1] <= e[1]})
    IN SubSeq(s, 1, k) \o <<e>> \o SubSeq(s, k + 1, Len(s))

RECURSIVE sorted(_)
sorted(s) ==
    IF s = <<>> THEN <<>>
    ELSE InsertByKey(sorted(SubSeq(s, 1, Len(s) - 1)), s[Len(s)])

\* getimage(): the document, as the record of the root's attributes and the
\* sequence of its children.  The argument ext is not read.
SvgGetimage(f, ext) ==
    LET x0 == FSub(FMul(f.bbox[1], f.scale), SvgPad)
        y0 == FSub(FMul(FNeg(f.bbox[4]), f.scale), SvgPad)
        w == FAdd(f.pxwidth, 2 * SvgPad)
        h == FAdd(f.pxheight, 2 * SvgPad)
        rect == Node("rect", <<Tok("xy", x0, y0), Tok("wh", f.pxwidth, f.pxheight)>>,
                     [stroke |-> "black", fill |-> "none", width |-> 1, dash |-> "",
                      linecap |-> "", linejoin |-> ""])
        srt == sorted(f.svgelements)
    IN [height |-> h, width |-> w, viewBox |-> <<x0, y0, w, h>>,
        style |-> f.bgcolor,
        children |-> (IF f.showframe THEN <<rect>> ELSE <<>>)
                     \o [i \in 1..Len(srt) |-> srt[i][2]]]

\* A variant of the export that sorts the buffer in place.
SvgSortedInPlace(f) == [f EXCEPT !.svgelements = sorted(@)]

\* The Figure after getimage() or save(): sorted() makes a new list and no
\* attribute of self is assigned.
SvgExported(f) == f

\* A variant of clear() that also forgets the background.
SvgClearAll(f) == [f EXCEPT !.svgelements = <<>>, !.bgcolor = ""]

SvgClear(f) == [f EXCEPT !.svgelements = <<>>]


(***************************************************************************)
(* The raster backend: backends/mpl.py.  The Figure record holds what the  *)
(* code keeps (showframe, bbox, inches_per_unit, userfig) and what it      *)
(* reads and writes of the Matplotlib axis: the artists added, the view    *)
(* limits with their autoscale flags, the figure size, the face colour and *)
(* whether axis and frame are shown.                                       *)
(***************************************************************************)
MplPad == 1             \* x1 -= .1, in tenths

DefaultLim == <<0, 0, 10, 10>>         \* the limits (0, 1) of an axis with no data
DefaultSize == <<6400, 4800>>          \* figure.figsize, 6.4 x 4.8 inches

Artist(type, ext, zorder, data) ==
    [type |-> type, ext |-> ext, zorder |-> zorder, data |-> data]

\* The extent of the data of the artists: what autoscale shows.
RECURSIVE DataLim(_)
DataLim(artists) ==
    IF artists = <<>> THEN EmptyBBox
    ELSE LET r == DataLim(Tail(artists))
             e == Head(artists).ext
         IN <<PyMin(r[1], e[1]), PyMin(r[2], e[2]), PyMax(r[3], e[3]), PyMax(r[4], e[4])>>

\* ax.get_xlim(), ax.get_ylim(): the limits set, or with autoscale on the
\* extent of the data (the default limits when there is none).
MplViewLim(f) ==
    LET dl == IF DataLim(f.artists) = EmptyBBox THEN DefaultLim ELSE DataLim(f.artists)
    IN <<IF f.autox THEN dl[1] ELSE f.lim[1], IF f.autoy THEN dl[2] ELSE f.lim[2],
         IF f.autox THEN dl[3] ELSE f.lim[3], IF f.autoy THEN dl[4] ELSE f.lim[4]>>

MplFigure(ax, bbox, inches_per_unit, showframe) ==
    [kind |-> "mpl",
     showframe |-> showframe,
     bbox |-> bbox,
     inches_per_unit |-> inches_per_unit,
     userfig |-> ax,
     artists |-> <<>>,
     autox |-> TRUE,
     autoy |-> TRUE,
     lim |-> DefaultLim,
     size |-> DefaultSize,
     axes_visible |-> (ax \/ showframe),
     facecolor |-> ""]

MplSetBBox(f, bbox) == [f EXCEPT !.bbox = bbox]

MplBgcolor(f, color) == [f EXCEPT !.facecolor = color]

MplAddArtist(f, a) == [f EXCEPT !.artists = Append(@, a)]

\* The extent of a point list; a NaN point is a gap of the line.
RECURSIVE PointsExt(_, _)
PointsExt(x, y) ==
    IF x = <<>> \/ y = <<>> THEN EmptyBBox
    ELSE LET r == PointsExt(Tail(x), Tail(y))
         IN IF IsNaN(Head(x)) \/ IsNaN(Head(y)) THEN r
            ELSE <<PyMin(r[1], Head(x)), PyMin(r[2], Head(y)),
                   PyMax(r[3], Head(x)), PyMax(r[4], Head(y))>>

fix_capstyle(capstyle) == IF capstyle = "square" THEN "projecting" ELSE capstyle

MplPlot(f, x, y, st, zorder) ==
    LET line == Artist("line", PointsExt(x, y), zorder,
                       [x |-> x, y |-> y, color |-> st.color, ls |-> st.ls, lw |-> st.lw,
                        capstyle |-> fix_capstyle(st.capstyle),
                        joinstyle |-> st.joinstyle, closed |-> FALSE, fill |-> "None"])
        area == Artist("fill", PointsExt(x, y), zorder,
                       [x |-> x, y |-> y, color |-> st.fill, ls |-> "", lw |-> 0,
                        capstyle |-> "", joinstyle |-> "", closed |-> TRUE,
                        fill |-> st.fill])
    IN IF st.fill \notin {"None", ""}
       THEN MplAddArtist(MplAddArtist(f, line), area)
       ELSE MplAddArtist(f, line)

\* text(): ax.text() adds a Text artist for every string; a text does not
\* widen the data limits.
MplText(f, s, x, y, rotation, halign, valign, zorder) ==
    MplAddArtist(f, Artist("text", EmptyBBox, zorder,
                           [x |-> <<x>>, y |-> <<y>>, color |-> s, ls |-> halign,
                            lw |-> rotation, capstyle |-> valign, joinstyle |-> "",
                            closed |-> FALSE, fill |-> "None"]))

MplPoly(f, verts, closed, st, zorder) ==
    LET x == [i \in 1..Len(verts) |-> verts[i][1]]
        y == [i \in 1..Len(verts) |-> verts[i][2]]
    IN MplAddArtist(f, Artist("polygon", PointsExt(x, y), zorder,
                              [x |-> x, y |-> y, color |-> st.color, ls |-> st.ls,
                               lw |-> st.lw, capstyle |-> fix_capstyle(st.capstyle),
                               joinstyle |-> st.joinstyle, closed |-> closed,
                               fill |-> st.fill]))

MplCircle(f, center, radius, st, zorder) ==
    MplAddArtist(f, Artist("circle",
                           <<center[1] - radius, center[2] - radius,
                             center[1] + radius, center[2] + radius>>, zorder,
                           [x |-> <<center[1]>>, y |-> <<center[2]>>, color |-> st.color,
                            ls |-> st.ls, lw |-> st.lw, capstyle |-> "",
                            joinstyle |-> "", closed |-> TRUE, fill |-> st.fill]))

\* arrow(): a filled, closed polygon through the fins and the head, for
\* dx = 0 or dy = 0.
MplArrow(f, x, y, dx, dy, headwidth, headlength, color, zorder) ==
    LET fullen == (IF dx < 0 THEN -dx ELSE dx) + (IF dy < 0 THEN -dy ELSE dy)
        t == CASE dy = 0 /\ dx >= 0 -> 0 [] dy > 0 -> 90 [] dy < 0 -> -90 [] OTHER -> 180
        at(q) == <<Rot(q, t)[1] + x, Rot(q, t)[2] + y>>
        fin1 == at(<<fullen - headlength, headwidth \div 2>>)
        fin2 == at(<<fullen - headlength, -(headwidth \div 2)>>)
        px == <<fin1[1], x + dx, fin2[1]>>
        py == <<fin1[2], y + dy, fin2[2]>>
    IN MplAddArtist(f, Artist("polygon", PointsExt(px, py), zorder,
                              [x |-> px, y |-> py, color |-> "none", ls |-> "-",
                               lw |-> 1, capstyle |-> "", joinstyle |-> "",
                               closed |-> TRUE, fill |-> color]))

\* getfig(): set the limits and the figure size from the bounding box, or from
\* the limits in force when there is none.  ax.set_xlim / set_ylim and
\* set_size_inches raise ValueError on a value that is not finite (and
\* set_size_inches on a negative one); the code passes over it.
MplGetfig(f) ==
    IF f.userfig THEN f
    ELSE LET autofit == f.bbox = NoBBox
                        \/ \E i \in DOMAIN f.bbox : f.bbox[i] = Inf \/ f.bbox[i] = -Inf
             v == MplViewLim(f)
             x1 == FSub(IF autofit THEN v[1] ELSE f.bbox[1], MplPad)
             x2 == FAdd(IF autofit THEN v[3] ELSE f.bbox[3], MplPad)
             y1 == FSub(IF autofit THEN v[2] ELSE f.bbox[2], MplPad)
             y2 == FAdd(IF autofit THEN v[4] ELSE f.bbox[4], MplPad)
             xok == IsFinite(x1) /\ IsFinite(x2)
             yok == xok /\ IsFinite(y1) /\ IsFinite(y2)
             w == FSub(x2, x1)
             h == FSub(y2, y1)
             sw == FMul(w, f.inches_per_unit)
             sh == FMul(h, f.inches_per_unit)
             sok == IsFinite(sw) /\ IsFinite(sh) /\ sw >= 0 /\ sh >= 0
         IN [f EXCEPT !.lim = <<IF xok THEN x1 ELSE @[1], IF yok THEN y1 ELSE @[2],
                                 IF xok THEN x2 ELSE @[3], IF yok THEN y2 ELSE @[4]>>,
                      !.autox = IF xok THEN FALSE ELSE @,
                      !.autoy = IF yok THEN FALSE ELSE @,
                      !.axes_visible = IF ~f.showframe THEN FALSE ELSE @,
                      !.size = IF sok THEN <<sw, sh>> ELSE @]

\* savefig(): the image is a function of what the axis holds.
MplImage(f, ext) ==
    [ext |-> ext, lim |-> MplViewLim(f), size |-> f.size, artists |-> f.artists,
     facecolor |-> f.facecolor, axes_visible |-> f.axes_visible]

\* ax.clear(): the artists go and autoscale is on again.
MplClear(f) == [f EXCEPT !.artists = <<>>, !.autox = TRUE, !.autoy = TRUE,
                         !.lim = DefaultLim]


(***************************************************************************)
(* Elements.  The Element class is not among the sources; the session uses *)
(* three of its operations: _place(here, theta, **dwgparams), which        *)
(* returns the exit point and exit heading and records them as absdrop,    *)
(* get_bbox(transform=True), and _draw(fig).  An element here is a         *)
(* straight two-terminal part: len times the session's unit long, with its *)
(* own direction (turn) or the session's heading (turn = -1), half wide on *)
(* each side, drawn as one plot() call.                                    *)
(***************************************************************************)
ElementKinds ==
    { [name |-> "line", len |-> 1, turn |-> -1, half |-> 0, zorder |-> 1],
      [name |-> "up",   len |-> 1, turn |-> 90, half |-> 2, zorder |-> 2],
      [name |-> "back", len |-> 1, turn |-> 180, half |-> 1, zorder |-> 2] }

Kind(n) == CHOOSE e \in ElementKinds : e.name = n

Dir(t) == CASE t = 0 -> <<1, 0>> [] t = 90 -> <<0, 1>>
            [] t = 180 -> <<-1, 0>> [] OTHER -> <<0, -1>>

Min2(a, b) == IF a < b THEN a ELSE b
Max2(a, b) == IF a > b THEN a ELSE b

_place(e, h, t, params) ==
    LET t1 == IF e.turn = -1 THEN t ELSE e.turn
        l == e.len * params.unit
        drop == <<h[1] + l * Dir(t1)[1], h[2] + l * Dir(t1)[2]>>
    IN [name |-> e.name, start |-> h, absdrop |-> <<drop, t1>>, zorder |-> e.zorder,
        bbox |-> <<Min2(h[1], drop[1]) - e.half, Min2(h[2], drop[2]) - e.half,
                   Max2(h[1], drop[1]) + e.half, Max2(h[2], drop[2]) + e.half>>]

DefaultStyle == [color |-> "black", ls |-> "-", lw |-> 2, capstyle |-> "round",
                 joinstyle |-> "round", fill |-> "None"]

_draw(e, f) ==
    LET x == <<e.start[1], e.absdrop[1][1]>>
        y == <<e.start[2], e.absdrop[1][2]>>
    IN IF f.kind = "svg" THEN SvgPlot(f, x, y, DefaultStyle, e.zorder)
       ELSE MplPlot(f, x, y, DefaultStyle, e.zorder)

\* The calls the session makes on self.fig, whichever backend it is.
\* A variant of clear() that keeps what is on the canvas.
FigNotCleared(f) == f

FigClear(f) == IF f.kind = "svg" THEN SvgClear(f) ELSE MplClear(f)
\* A variant of set_bbox() that leaves the canvas with the box it had.
FigKeepBBox(f, bbox) == f

FigSetBBox(f, bbox) == IF f.kind = "svg" THEN SvgSetBBox(f, bbox) ELSE MplSetBBox(f, bbox)
FigBgcolor(f, c) == IF f.kind = "svg" THEN SvgBgcolor(f, c) ELSE MplBgcolor(f, c)
\* getimage() and save() leave a vector Figure as it is and run getfig() on a
\* raster one.
FigExported(f) == IF f.kind = "svg" THEN SvgExported(f) ELSE MplGetfig(f)
FigImage(f, ext) == IF f.kind = "svg" THEN SvgGetimage(f, ext) ELSE MplImage(MplGetfig(f), ext)

(***************************************************************************)
(* The drawing session: schemdraw.py, class Drawing.                       *)
(***************************************************************************)
Units == {10, 20}       \* the session's unit: 1.0 or 2.0
AnchorNames == {"a"}
Unset == <<>>           \* no anchor of that name
NoTheta == -1           \* theta=None of move_from

\* The call just made: its name, its argument, and for add() the cursor and
\* heading it was called with.
OpFrom(name, arg, from) == [op |-> name, arg |-> arg, from |-> from]
OpArg(name, arg) == OpFrom(name, arg, <<>>)
Op(name) == OpArg(name, "")

\* The loop of get_bbox() over self.elements.
RECURSIVE BBoxLoop(_, _)
BBoxLoop(els, acc) ==
    IF els = <<>> THEN acc
    ELSE LET b == Head(els).bbox
         IN BBoxLoop(Tail(els), <<PyMin(b[1], acc[1]), PyMin(b[2], acc[2]),
                                   PyMax(b[3], acc[3]), PyMax(b[4], acc[4])>>)

\* A variant that starts the fold from a box at the origin.
get_bbox_from_origin(els) == BBoxLoop(els, <<0, 0, 0, 0>>)

get_bbox(els) == BBoxLoop(els, EmptyBBox)

\* The element of a one-element set.  {F(v) : v \in {x}} is F applied to the
\* value of x: a call evaluates its argument once, before the body runs.
The(S) == CHOOSE r \in S : TRUE

\* for element in self.elements: element._draw(self.fig)
RECURSIVE _drawelements(_, _)
_drawelements(els, f) ==
    IF els = <<>> THEN f
    ELSE _drawelements(Tail(els), The({_draw(Head(els), g) : g \in {f}}))

\* mplFigure(bbox=..., inches_per_unit=..., [ax, showframe]) followed by
\* bgcolor() when the session has one.
NewMplFig(ax, bbox, showframe) ==
    LET f == MplFigure(ax, bbox, dwgparams.inches_per_unit, showframe)
    IN IF dwgparams.bgcolor # "absent" THEN MplBgcolor(f, dwgparams.bgcolor) ELSE f

Returns(op, r, n) == lastop' = op /\ err' = "none" /\ ret' = r /\ built' = built + n
Raises(op, e, n) == lastop' = op /\ err' = e /\ ret' = <<>> /\ built' = built + n

\* A variant of list.append() that puts the item first.
insert_first(l, x) == <<x>> \o l

\* self.elements.append(element)
append(l, x) == Append(l, x)

Add(e) ==
    LET pe == _place(e, here, theta, dwgparams)
        els == append(elements, pe)
        f0 == IF fig.kind = "none" THEN NewMplFig(FALSE, get_bbox(els), FALSE) ELSE fig
        f1 == FigExported(FigSetBBox(_draw(pe, f0), get_bbox(els)))
    IN /\ here' = pe.absdrop[1]
       /\ theta' = pe.absdrop[2]
       /\ elements' = els
       /\ IF _interactive
          THEN IF fig.kind = "none" /\ ~mplFigure
               THEN fig' = fig /\ Raises(OpFrom("add", e.name, <<here, theta>>), "TypeError", 0)
               ELSE fig' = f1 /\ Returns(OpFrom("add", e.name, <<here, theta>>), <<>>,
                                         IF fig.kind = "none" THEN 1 ELSE 0)
          ELSE fig' = NoFig /\ Returns(OpFrom("add", e.name, <<here, theta>>), <<>>, 0)
       /\ UNCHANGED <<canvas, outfile, anchors, dwgparams, _state, _interactive,
                      mplFigure, default_canvas>>

Front(s) == SubSeq(s, 1, Len(s) - 1)
Last(s) == s[Len(s)]

Undo ==
    LET els == Front(elements)
        f1 == _drawelements(els, FigClear(fig))
    IN /\ IF elements = <<>>
          THEN Raises(Op("undo"), "IndexError", 0) /\ UNCHANGED <<elements, fig, here, theta>>
          ELSE /\ elements' = els
               /\ IF fig.kind = "none"
                  THEN Raises(Op("undo"), "AttributeError", 0)
                       /\ UNCHANGED <<fig, here, theta>>
                  ELSE IF els = <<>>
                       THEN fig' = f1 /\ Raises(Op("undo"), "IndexError", 0)
                            /\ UNCHANGED <<here, theta>>
                       ELSE /\ here' = Last(els).absdrop[1]
                            /\ theta' = Last(els).absdrop[2]
                            /\ fig' = FigExported(FigSetBBox(f1, get_bbox(els)))
                            /\ Returns(Op("undo"), <<>>, 0)
       /\ UNCHANGED <<canvas, outfile, anchors, dwgparams, _state, _interactive,
                      mplFigure, default_canvas>>

Move(d) ==
    /\ here' = <<here[1] + d[1], here[2] + d[2]>>
    /\ Returns(Op("move"), <<>>, 0)
    /\ UNCHANGED <<canvas, outfile, elements, anchors, dwgparams, theta, _state,
                   _interactive, fig, mplFigure, default_canvas>>

MoveFrom(ref, d, t) ==
    /\ here' = <<ref[1] + d[1], ref[2] + d[2]>>
    /\ theta' = IF t # NoTheta THEN t ELSE theta
    /\ Returns(Op("move_from"), <<>>, 0)
    /\ UNCHANGED <<canvas, outfile, elements, anchors, dwgparams, _state,
                   _interactive, fig, mplFigure, default_canvas>>

SetAnchor(name) ==
    /\ anchors' = [anchors EXCEPT ![name] = here]
    /\ Returns(Op("set_anchor"), <<>>, 0)
    /\ UNCHANGED <<canvas, outfile, elements, dwgparams, here, theta, _state,
                   _interactive, fig, mplFigure, default_canvas>>

Push ==
    /\ _state' = Append(_state, <<here, theta>>)
    /\ Returns(Op("push"), <<>>, 0)
    /\ UNCHANGED <<canvas, outfile, elements, anchors, dwgparams, here, theta,
                   _interactive, fig, mplFigure, default_canvas>>

\* A variant that takes the oldest snapshot.
PopOldest(s) == 1

\* self._state.pop(): the index of the snapshot list.pop() takes.
PopIndex(s) == Len(s)

\* A variant of pop() on an empty stack without the length test: list.pop()
\* raises.
PopEmptyRaises ==
    /\ UNCHANGED <<here, theta, _state>>
    /\ Raises(OpArg("pop", "empty"), "IndexError", 0)

\* pop() when len(self._state) > 0 is false: the call falls through.
PopEmpty ==
    /\ UNCHANGED <<here, theta, _state>>
    /\ Returns(OpArg("pop", "empty"), <<>>, 0)

Pop ==
    /\ IF Len(_state) > 0
       THEN LET i == PopIndex(_state)
            IN /\ here' = _state[i][1]
               /\ theta' = _state[i][2]
               /\ _state' = SubSeq(_state, 1, i - 1) \o SubSeq(_state, i + 1, Len(_state))
               /\ Returns(OpArg("pop", "restored"), <<>>, 0)
       ELSE PopEmpty
    /\ UNCHANGED <<canvas, outfile, elements, anchors, dwgparams, _interactive, fig,
                   mplFigure, default_canvas>>

GetBBox ==
    /\ Returns(Op("get_bbox"), get_bbox(elements), 0)
    /\ UNCHANGED <<session, fig, mplFigure, default_canvas>>

Interactive(b) ==
    /\ _interactive' = b
    /\ Returns(Op("interactive"), <<>>, 0)
    /\ UNCHANGED <<canvas, outfile, elements, anchors, dwgparams, here, theta, _state,
                   fig, mplFigure, default_canvas>>


(***************************************************************************)
(* draw() and save().  A canvas choice is "None", a backend name, or an    *)
(* object: "ax" (anything with a plot attribute, a Matplotlib axis) or     *)
(* "svgobj" (anything else, an ElementTree element).  The results are      *)
(* records [fig, err, built]: the session's Figure after the call, the     *)
(* exception raised, and the number of Figures constructed.                *)
(* Figure.show() is modelled outside a notebook (inline = False), where    *)
(* the raster backend's show() runs getfig(); in a notebook show=True does *)
(* what show=False does here.                                              *)
(***************************************************************************)
Canvases == {"None", "matplotlib", "svg", "ax", "svgobj"}

Res(f, e, n) == [fig |-> f, err |-> e, built |-> n]

\* _drawmpl(ax, showframe)
_drawmpl(f, ax, showframe) ==
    LET new == f.kind = "none" \/ ax
        f0 == IF new THEN NewMplFig(ax, get_bbox(elements), showframe) ELSE f
    IN IF new /\ ~mplFigure THEN Res(f, "TypeError", 0)
       ELSE Res(_drawelements(elements, f0), "none", IF new THEN 1 ELSE 0)

\* _drawsvg(svg, showframe)
_drawsvg(f, svg, showframe) ==
    LET f0 == IF f.kind = "none" \/ svg
              THEN SvgFigure(get_bbox(elements), dwgparams.inches_per_unit, showframe)
              ELSE f
        f1 == IF dwgparams.bgcolor # "absent" THEN FigBgcolor(f0, dwgparams.bgcolor)
              ELSE f0
    IN Res(_drawelements(elements, f1), "none", IF f.kind = "none" \/ svg THEN 1 ELSE 0)

\* The canvas draw() settles on.
Target(cv) ==
    LET c1 == IF cv = "None" THEN canvas ELSE cv
    IN IF c1 = "None" THEN default_canvas ELSE c1

\* draw(showframe, show, canvas), on a session whose Figure is f.  The call
\* of save() at its end finds self.fig set and goes to Figure.save().
draw(f, showframe, show, cv) ==
    LET c == Target(cv)
        Drawn(g) == IF c \in {"matplotlib", "ax"} THEN _drawmpl(g, c = "ax", showframe)
                    ELSE _drawsvg(g, c # "svg", showframe)
        Shown(r) == IF r.err = "none" /\ show
                    THEN [r EXCEPT !.fig = FigExported(r.fig)] ELSE r
        Saved(r) == IF r.err = "none" /\ outfile
                    THEN [r EXCEPT !.fig = FigExported(r.fig)] ELSE r
    IN The({Saved(s) : s \in {Shown(r) : r \in {Drawn(f)}}})

Draw(showframe, show, cv) ==
    \E r \in {draw(fig, showframe, show, cv)} :
       /\ cv = "ax" => mplFigure
       /\ fig' = r.fig
       /\ IF r.err = "none" THEN Returns(OpArg("draw", cv), r.fig, r.built)
          ELSE Raises(OpArg("draw", cv), r.err, r.built)
       /\ UNCHANGED <<session, mplFigure, default_canvas>>

\* save(fname): draws first when no Figure is built.
Save ==
    \E r \in {IF fig.kind = "none" THEN draw(fig, FALSE, FALSE, "None")
               ELSE Res(fig, "none", 0)} :
       /\ IF r.err = "none"
          THEN fig' = FigExported(r.fig) /\ Returns(Op("save"), <<>>, r.built)
          ELSE fig' = r.fig /\ Raises(Op("save"), r.err, r.built)
       /\ UNCHANGED <<session, mplFigure, default_canvas>>

\* use(backend)
Use(backend) ==
    /\ IF backend = "matplotlib" /\ ~mplFigure
       THEN Raises(OpArg("use", backend), "ValueError", 0) /\ UNCHANGED default_canvas
       ELSE default_canvas' = backend /\ Returns(OpArg("use", backend), <<>>, 0)
    /\ UNCHANGED <<session, fig, mplFigure>>

(***************************************************************************)
(* The session after Drawing(canvas, file, unit=..., bgcolor=...).  The    *)
(* raster backend is imported or not; an axis to draw on exists only when  *)
(* it is.                                                                  *)
(***************************************************************************)
InitSession(mpls, cvs, files, bgs, units) ==
    /\ mplFigure \in mpls
    /\ default_canvas = IF mplFigure THEN "matplotlib" ELSE "svg"
    /\ canvas \in cvs
    /\ canvas = "ax" => mplFigure
    /\ outfile \in files
    /\ elements = <<>>
    /\ anchors = [n \in AnchorNames |-> Unset]
    /\ dwgparams \in [unit : units, inches_per_unit : {50}, bgcolor : bgs]
    /\ here = <<0, 0>>
    /\ theta = 0
    /\ _state = <<>>
    /\ _interactive = FALSE
    /\ fig = NoFig
    /\ lastop = Op("init")
    /\ err = "none"
    /\ ret = <<>>
    /\ built = 0

(***************************************************************************)
(* Spec: placing elements and moving the cursor, in a session that is      *)
(* never drawn.  The cursor is kept on a small grid.                       *)
(***************************************************************************)
MaxPlaced == 2          \* elements placed
MaxStack == 2           \* snapshots pushed

\* The call leaves the cursor on the grid.
OnGrid(gx, gy) == here'[1] \in gx /\ here'[2] \in gy

Line == {0, 10}

Init == InitSession({TRUE}, {"None"}, {FALSE}, {"absent"}, Units)

Refs == {<<0, 0>>} \cup {anchors[n] : n \in {m \in AnchorNames : anchors[m] # Unset}}

Next ==
    \/ \E e \in {Kind("line"), Kind("back")} :
          Len(elements) < MaxPlaced /\ Add(e) /\ OnGrid(Line, {0})
    \/ Undo
    \/ Move(<<10, 0>>) /\ OnGrid(Line, {0})
    \/ \E ref \in Refs, t \in {NoTheta, 0} : MoveFrom(ref, <<0, 0>>, t)
    \/ \E n \in AnchorNames : SetAnchor(n)
    \/ Len(_state) < MaxStack /\ Push
    \/ Pop

Spec == Init /\ [][Next]_vars

(***************************************************************************)
(* SpecBBox: the bounding box of the elements placed.                      *)
(***************************************************************************)
MaxBoxes == 2           \* elements placed

Plane == {0, 10, 20}

NextBBox ==
    \/ \E e \in ElementKinds : Len(elements) < MaxBoxes /\ Add(e) /\ OnGrid(Plane, Plane)
    \/ \E d \in {<<10, 0>>, <<0, 10>>} : Move(d) /\ OnGrid(Plane, Plane)
    \/ Undo
    \/ GetBBox

SpecBBox == Init /\ [][NextBBox]_vars

(***************************************************************************)
(* SpecDraw: building and rebuilding the canvas.  draw() on a built canvas *)
(* draws every element on it again, and an export of a raster canvas with  *)
(* no bounding box widens its limits: the number of primitives on the      *)
(* canvas and the width of its limits are capped.                          *)
(***************************************************************************)
MaxElements == 2        \* elements placed
MaxPrims == 3           \* primitives on the canvas
MaxGrow == 1            \* exports that widen the limits of a raster canvas
MaxBuilt == 2           \* Figure objects constructed

Prims(f) == CASE f.kind = "svg" -> Len(f.svgelements)
              [] f.kind = "mpl" -> Len(f.artists)
              [] OTHER -> 0

\* The widest an element reaches sideways of its line.
MaxHalf == CHOOSE h \in {e.half : e \in ElementKinds} : \A e \in ElementKinds : e.half <= h

Capped(f) ==
    /\ built' <= MaxBuilt
    /\ Prims(f) <= MaxPrims
    /\ f.kind = "mpl" => f.lim[1] >= -(MaxGrow * MplPad) - MaxHalf

InitDraw == InitSession(BOOLEAN, Canvases, BOOLEAN, {"absent"}, {10})

NextDraw ==
    \/ \E e \in {Kind("line"), Kind("back")} :
          Len(elements) < MaxElements /\ Add(e) /\ OnGrid(Line, {0}) /\ Capped(fig')
    \/ Undo
    \/ \E sh \in BOOLEAN, cv \in Canvases :
          Draw(FALSE, sh, cv) /\ Capped(fig')
    \/ Save /\ Capped(fig')
    \/ \E b \in BOOLEAN : Interactive(b)
    \/ \E b \in {"matplotlib", "svg"} : Use(b)

SpecDraw == InitDraw /\ [][NextDraw]_vars


(***************************************************************************)
(* SpecSvg: a Figure of the vector backend, driven directly.  The session  *)
(* variables stay as the constructor left them.                            *)
(***************************************************************************)
MaxNodes == 3           \* nodes buffered

FilledStyle == [color |-> "blue", ls |-> "--", lw |-> 1, capstyle |-> "projecting",
                joinstyle |-> "miter", fill |-> "red"]
ZOrders == {1, 2}
\* x, y and style of plot(): a line, and a filled line broken by a pen-up marker.
PlotInputs == { <<<<0, 10>>, <<0, 10>>, DefaultStyle>>,
                <<<<0, NaN, 10, 20>>, <<0, NaN, 10, 0>>, FilledStyle>> }
PolyInputs == { <<<<0, 0>>, <<10, 0>>, <<10, 10>>>> }
BBoxInputs == { <<0, 0, 20, 10>>, EmptyBBox }
Colors == {"", "white"}

Call(op, f, r) ==
    /\ fig' = f
    /\ Returns(op, r, 0)
    /\ UNCHANGED <<session, mplFigure, default_canvas>>

InitSvg ==
    /\ mplFigure = TRUE
    /\ default_canvas = "matplotlib"
    /\ canvas = "svg"
    /\ outfile = FALSE
    /\ elements = <<>>
    /\ anchors = [n \in AnchorNames |-> Unset]
    /\ dwgparams = [unit |-> 10, inches_per_unit |-> 50, bgcolor |-> "absent"]
    /\ here = <<0, 0>>
    /\ theta = 0
    /\ _state = <<>>
    /\ _interactive = FALSE
    /\ \E b \in BBoxInputs, sf \in BOOLEAN : fig = SvgFigure(b, 50, sf)
    /\ lastop = Op("init")
    /\ err = "none"
    /\ ret = <<>>
    /\ built = 0

Buffered == Len(fig'.svgelements) <= MaxNodes

NextSvg ==
    \/ \E in \in PlotInputs, z \in ZOrders :
          Call(Op("plot"), SvgPlot(fig, in[1], in[2], in[3], z), <<>>) /\ Buffered
    \/ \E t \in {"", "R1"} :
          Call(OpArg("text", t), SvgText(fig, t, 10, 10, 0, "center", "center", 3), <<>>)
          /\ Buffered
    \/ \E v \in PolyInputs, c \in BOOLEAN :
          Call(Op("poly"), SvgPoly(fig, v, c, FilledStyle, 1), <<>>) /\ Buffered
    \/ Call(Op("circle"), SvgCircle(fig, <<10, 10>>, 5, DefaultStyle, 1), <<>>) /\ Buffered
    \/ \E d \in {<<10, 0>>, <<0, 10>>} :
          Call(Op("arrow"), SvgArrow(fig, 0, 0, d[1], d[2], 2, 2, "black", 2, 1), <<>>)
          /\ Buffered
    \/ \E c \in Colors : Call(Op("bgcolor"), SvgBgcolor(fig, c), <<>>)
    \/ \E b \in BBoxInputs : Call(Op("set_bbox"), SvgSetBBox(fig, b), <<>>)
    \/ \E ext \in {"svg", "png"} : Call(OpArg("getimage", ext), SvgExported(fig), SvgGetimage(fig, ext))
    \/ Call(Op("save"), SvgExported(fig), SvgGetimage(fig, "svg"))
    \/ Call(Op("clear"), SvgClear(fig), <<>>)

SpecSvg == InitSvg /\ [][NextSvg]_vars


(***************************************************************************)
(* SpecMpl: a Figure of the raster backend, driven directly, on its own    *)
(* figure or on an axis of the caller's.                                   *)
(***************************************************************************)
MaxArtists == 2         \* artists on the axis
MaxWiden == 2           \* exports that widen the limits

InitMpl ==
    /\ mplFigure = TRUE
    /\ default_canvas = "matplotlib"
    /\ canvas = "matplotlib"
    /\ outfile = FALSE
    /\ elements = <<>>
    /\ anchors = [n \in AnchorNames |-> Unset]
    /\ dwgparams = [unit |-> 10, inches_per_unit |-> 50, bgcolor |-> "absent"]
    /\ here = <<0, 0>>
    /\ theta = 0
    /\ _state = <<>>
    /\ _interactive = FALSE
    /\ \E ax \in BOOLEAN, b \in BBoxInputs \cup {NoBBox} : fig = MplFigure(ax, b, 50, FALSE)
    /\ lastop = Op("init")
    /\ err = "none"
    /\ ret = <<>>
    /\ built = 0

OnAxis == Len(fig'.artists) <= MaxArtists
Widened == fig'.lim[1] >= -(MaxWiden * MplPad)

NextMpl ==
    \/ \E in \in PlotInputs :
          Call(Op("plot"), MplPlot(fig, in[1], in[2], in[3], 2), <<>>) /\ OnAxis
    \/ \E t \in {"", "R1"} :
          Call(OpArg("text", t), MplText(fig, t, 10, 10, 0, "center", "center", 3), <<>>)
          /\ OnAxis
    \/ \E v \in PolyInputs, c \in BOOLEAN :
          Call(Op("poly"), MplPoly(fig, v, c, FilledStyle, 1), <<>>) /\ OnAxis
    \/ Call(Op("circle"), MplCircle(fig, <<10, 10>>, 5, DefaultStyle, 1), <<>>) /\ OnAxis
    \/ Call(Op("arrow"), MplArrow(fig, 0, 0, 10, 0, 2, 2, "black", 1), <<>>) /\ OnAxis
    \/ \E c \in Colors : Call(Op("bgcolor"), MplBgcolor(fig, c), <<>>)
    \/ \E b \in BBoxInputs : Call(Op("set_bbox"), MplSetBBox(fig, b), <<>>)
    \/ Call(Op("getfig"), MplGetfig(fig), MplImage(MplGetfig(fig), "fig")) /\ Widened
    \/ \E ext \in {"svg", "png"} :
          Call(OpArg("getimage", ext), MplGetfig(fig), MplImage(MplGetfig(fig), ext))
          /\ Widened
    \/ Call(Op("save"), MplGetfig(fig), MplImage(MplGetfig(fig), "file")) /\ Widened
    \/ Call(Op("clear"), MplClear(fig), <<>>)

SpecMpl == InitMpl /\ [][NextMpl]_vars

(***************************************************************************)
(* SpecArc: arcs on a vector canvas.  The angles are whole quarter turns;  *)
(* the sizes and angles are those for which the floating-point arithmetic  *)
(* of arc() gives what exact arithmetic gives.                             *)
(***************************************************************************)
MaxArcs == 1            \* arcs buffered

ArcInputs ==
    [width : {10}, height : {10}, theta1 : {0, 90}, theta2 : {0, 90, 180, 270, 360},
     angle : {0, 90}, arrow : {"None", "ccw", "cw"}]
    \cup [width : {40}, height : {20}, theta1 : {0, 90},
          theta2 : {0, 90, 180, 270, 360}, angle : {0, 90}, arrow : {"None", "ccw", "cw"}]

\* The curve nodes of a buffer: the ellipses and the paths with an arc command.
IsCurve(node) ==
    \/ node.tag = "ellipse"
    \/ node.tag = "path" /\ \E i \in 1..Len(node.d) : node.d[i].t = "a"
Curves(f) == {i \in 1..Len(f.svgelements) : IsCurve(f.svgelements[i][2])}

NextArc ==
    \/ \E in \in ArcInputs :
          /\ Cardinality(Curves(fig)) < MaxArcs
          /\ Call(OpArg("arc", in),
                  SvgArc(fig, <<10, 10>>, in.width, in.height, in.theta1, in.theta2,
                         in.angle, "black", 2, 1, in.arrow), <<>>)
    \/ Call(OpArg("getimage", "svg"), SvgExported(fig), SvgGetimage(fig, "svg"))
    \/ Call(Op("clear"), SvgClear(fig), <<>>)

SpecArc == InitSvg /\ [][NextArc]_vars

(***************************************************************************)
(* SpecCalls: draw(), save(), get_imagedata() and the exit of the context  *)
(* manager, with the calls they make of each other followed one by one.    *)
(* A result is a record [fig, err, built, depth]: depth is the deepest     *)
(* nesting reached, the call made by the user being at depth 1.  A chain   *)
(* of calls deeper than MaxNest is taken to go on until the interpreter    *)
(* raises RecursionError.                                                  *)
(***************************************************************************)
MaxNest == 5            \* nested calls followed

Out(f, e, n, d) == [fig |-> f, err |-> e, built |-> n, depth |-> d]

\* A variant of the test of save() that takes the canvas for unbuilt always.
AlwaysUnbuilt(f) == TRUE

\* self.fig is None
Unbuilt(f) == f.kind = "none"

RECURSIVE draw_at(_, _, _, _)
RECURSIVE save_at(_, _)

\* draw(show=show, canvas=cv) as the n-th nested call.
draw_at(f, show, cv, n) ==
    IF n > MaxNest THEN Out(f, "RecursionError", 0, n)
    ELSE LET c == Target(cv)
             Drawn(g) == IF c \in {"matplotlib", "ax"} THEN _drawmpl(g, c = "ax", FALSE)
                         ELSE _drawsvg(g, c # "svg", FALSE)
             Shown(r) == IF r.err = "none" /\ show
                         THEN [r EXCEPT !.fig = FigExported(r.fig)] ELSE r
             After(r) ==
                 IF r.err # "none" THEN Out(r.fig, r.err, r.built, n)
                 ELSE IF outfile
                      THEN The({Out(v.fig, v.err, r.built + v.built, v.depth) :
                                  v \in {save_at(g, m) : g \in {r.fig}, m \in {n + 1}}})
                      ELSE Out(r.fig, "none", r.built, n)
         IN The({After(s) : s \in {Shown(r) : r \in {Drawn(g) : g \in {f}}}})

\* save(fname) as the n-th nested call.
save_at(f, n) ==
    IF n > MaxNest THEN Out(f, "RecursionError", 0, n)
    ELSE LET After(d) ==
                 IF d.err # "none" THEN d
                 ELSE IF d.fig.kind = "none"
                      THEN Out(d.fig, "AttributeError", d.built, d.depth)
                      ELSE Out(FigExported(d.fig), "none", d.built, d.depth)
         IN The({After(d) : d \in {IF Unbuilt(g) THEN draw_at(g, FALSE, "None", m + 1)
                                    ELSE Out(g, "none", 0, m) : g \in {f}, m \in {n}}})

\* get_imagedata(fmt): the result and the bytes returned.
get_imagedata(f, fmt) ==
    IF canvas = "svg" /\ fmt # "svg"
    THEN [out |-> Out(f, "ValueError", 0, 1), image |-> <<>>]
    ELSE LET After(d) ==
                 IF d.err # "none" THEN [out |-> d, image |-> <<>>]
                 ELSE [out |-> Out(FigExported(d.fig), "none", d.built, d.depth),
                       image |-> FigImage(d.fig, fmt)]
         IN The({After(d) : d \in {IF f.kind = "none" THEN draw_at(f, FALSE, "None", 2)
                                    ELSE Out(f, "none", 0, 1)}})

\* __exit__(): save() when a file is set, then draw(show=False); display()
\* is not defined outside a notebook and the NameError is swallowed.
exit(f) ==
    LET After(s) ==
            IF s.err # "none" THEN s
            ELSE The({Out(d.fig, d.err, s.built + d.built,
                          IF d.depth > s.depth THEN d.depth ELSE s.depth) :
                        d \in {draw_at(s.fig, FALSE, "None", 2)}})
    IN The({After(s) : s \in {IF outfile THEN save_at(f, 2) ELSE Out(f, "none", 0, 1)}})

Done(op, r, image) ==
    /\ fig' = r.fig
    /\ lastop' = op
    /\ err' = r.err
    /\ ret' = [depth |-> r.depth, image |-> image]
    /\ built' = built + r.built
    /\ UNCHANGED <<session, mplFigure, default_canvas>>

DrawCall(show, cv) ==
    /\ cv = "ax" => mplFigure
    /\ \E r \in {draw_at(fig, show, cv, 1)} : Done(OpArg("draw", cv), r, <<>>)

SaveCall == \E r \in {save_at(fig, 1)} : Done(Op("save"), r, <<>>)

GetImagedata(fmt) ==
    \E r \in {get_imagedata(fig, fmt)} : Done(OpArg("get_imagedata", fmt), r.out, r.image)

Exit == \E r \in {exit(fig)} : Done(Op("exit"), r, <<>>)

InitCalls == InitSession(BOOLEAN, Canvases, BOOLEAN, {"absent"}, {10})

NextCalls ==
    \/ \E e \in {Kind("line"), Kind("back")} :
          Len(elements) < MaxElements /\ Add(e) /\ OnGrid(Line, {0})
    \/ \E sh \in BOOLEAN, cv \in Canvases : DrawCall(sh, cv) /\ Capped(fig')
    \/ SaveCall /\ Capped(fig')
    \/ \E fmt \in {"svg", "png"} : GetImagedata(fmt) /\ Capped(fig')
    \/ Exit /\ Capped(fig')
    \/ \E b \in {"matplotlib", "svg"} : Use(b)

SpecCalls == InitCalls /\ [][NextCalls]_vars

(***************************************************************************)
(* SpecPlot: plot() of the vector backend on lines with pen-up markers at  *)
(* every position.                                                         *)
(***************************************************************************)
MaxPaths == 2           \* paths buffered

\* x and y of plot() with the marker first, last, twice in a row, and inside.
GapInputs == { <<<<NaN, 10, 20>>, <<NaN, 10, 0>>>>,
               <<<<0, 10, NaN>>, <<0, 10, NaN>>>>,
               <<<<0, NaN, NaN, 20>>, <<0, NaN, NaN, 0>>>>,
               <<<<0, NaN, 10, 20>>, <<0, NaN, 10, 0>>>>,
               <<<<0, 10>>, <<0, 10>>>> }

NextPlot ==
    \/ \E in \in GapInputs, z \in ZOrders :
          Call(OpArg("plot", in), SvgPlot(fig, in[1], in[2], DefaultStyle, z), <<>>)
          /\ Len(fig'.svgelements) <= MaxPaths
    \/ Call(OpArg("getimage", "svg"), SvgExported(fig), SvgGetimage(fig, "svg"))
    \/ Call(Op("clear"), SvgClear(fig), <<>>)

SpecPlot == InitSvg /\ [][NextPlot]_vars

(***************************************************************************)
(* SpecUndo: undo() on a built canvas, with the cursor moved about between *)
(* the adds and the undo.                                                  *)
(***************************************************************************)
MaxKept == 3            \* elements placed

Track == {0, 10, 20}

Primitives(f) == IF f.kind = "svg" THEN f.svgelements ELSE f.artists

InitUndo == InitSession({TRUE}, {"None", "svg"}, {FALSE}, {"absent"}, {10})

NextUndo ==
    \/ Len(elements) < MaxKept /\ Add(Kind("line")) /\ OnGrid(Track, {0}) /\ Capped(fig')
    \/ Undo
    \/ Draw(FALSE, FALSE, "None") /\ Capped(fig')
    \/ \E b \in BOOLEAN : Interactive(b)
    \/ Move(<<10, 0>>) /\ OnGrid(Track, {0})
    \/ MoveFrom(<<0, 0>>, <<0, 0>>, NoTheta)
    \/ _state = <<>> /\ Push
    \/ Pop

SpecUndo == InitUndo /\ [][NextUndo]_vars

(***************************************************************************)
(* SpecClear: a canvas of either backend that is drawn on, exported and    *)
(* cleared.                                                                *)
(***************************************************************************)
MaxShapes == 2          \* primitives on the canvas
MaxPads == 2            \* exports that widen the limits of a raster canvas

InitClear ==
    /\ mplFigure = TRUE
    /\ default_canvas = "matplotlib"
    /\ canvas = "None"
    /\ outfile = FALSE
    /\ elements = <<>>
    /\ anchors = [n \in AnchorNames |-> Unset]
    /\ dwgparams = [unit |-> 10, inches_per_unit |-> 50, bgcolor |-> "absent"]
    /\ here = <<0, 0>>
    /\ theta = 0
    /\ _state = <<>>
    /\ _interactive = FALSE
    /\ \E sf \in BOOLEAN :
          \/ \E b \in BBoxInputs : fig = SvgFigure(b, 50, sf)
          \/ \E ax \in BOOLEAN, b \in BBoxInputs \cup {NoBBox} :
                fig = MplFigure(ax, b, 50, sf)
    /\ lastop = Op("init")
    /\ err = "none"
    /\ ret = <<>>
    /\ built = 0

FigPlot(f, x, y, st, zorder) ==
    IF f.kind = "svg" THEN SvgPlot(f, x, y, st, zorder) ELSE MplPlot(f, x, y, st, zorder)

Padded(f) == f.kind = "mpl" => f.lim[1] >= -(MaxPads * MplPad)

NextClear ==
    \/ \E in \in PlotInputs, z \in ZOrders :
          Call(Op("plot"), FigPlot(fig, in[1], in[2], in[3], z), <<>>)
          /\ Prims(fig') <= MaxShapes
    \/ \E c \in Colors : Call(Op("bgcolor"), FigBgcolor(fig, c), <<>>)
    \/ \E ext \in {"svg", "png"} :
          Call(OpArg("getimage", ext), FigExported(fig), FigImage(fig, ext))
          /\ Padded(fig')
    \/ Call(Op("clear"), FigClear(fig), <<>>)

SpecClear == InitClear /\ [][NextClear]_vars

(***************************************************************************)
(* Properties.                                                             *)
(***************************************************************************)

\* C1: when exactly one element has been added and undo() is the next call,
\* the element list is empty afterwards and the cursor and heading are the
\* ones add() was called with.
C1_UndoRestoresCursor ==
    [][(lastop.op = "add" /\ Len(elements) = 1 /\ lastop'.op = "undo")
         => /\ elements' = <<>>
            /\ here' = lastop.from[1]
            /\ theta' = lastop.from[2]]_vars

\* C2: push() saves the cursor and heading on top of the snapshot stack and
\* leaves them as they are; a pop() on a non-empty stack restores the cursor
\* and heading of the latest push() not yet popped and removes exactly that
\* snapshot.  So in a balanced, properly nested sequence every pop() brings
\* back what its push() saw, the last pop() what the first push() saw, and
\* the stack is back at its depth, whatever was called in between.
C2_PushPopLIFO ==
    [][/\ lastop'.op = "push"
          => /\ _state' = Append(_state, <<here, theta>>)
             /\ UNCHANGED <<here, theta>>
       /\ (lastop'.op = "pop" /\ _state # <<>>)
          => /\ <<here', theta'>> = Last(_state)
             /\ _state' = Front(_state)
       /\ lastop'.op \notin {"push", "pop"} => UNCHANGED _state]_vars

\* An inner pop() has restored a cursor or heading that differs from the
\* outer snapshot still on the stack, in a session with an element placed.
C2_Witness ==
    /\ lastop = OpArg("pop", "restored")
    /\ Len(_state) = 1
    /\ <<here, theta>> # _state[1]
    /\ elements # <<>>

\* C3: pop() on an empty snapshot stack raises nothing and leaves the cursor,
\* the heading, the stack, the elements, the anchors and the canvas as they
\* were.
C3_PopEmptyNoOp ==
    [][(lastop'.op = "pop" /\ _state = <<>>)
         => (err' = "none" /\ UNCHANGED <<session, fig>>)]_vars

\* pop() was called on an empty stack with the cursor away from the origin
\* and an element placed.
C3_Witness ==
    /\ lastop = OpArg("pop", "empty")
    /\ here # <<0, 0>>
    /\ elements # <<>>

\* C4: get_bbox() returns the smallest xmin and ymin and the largest xmax and
\* ymax over the elements' boxes, returns (+inf, +inf, -inf, -inf) when
\* there is no element, and changes nothing in the session.
C4_BBoxIsMinMax ==
    [][lastop'.op = "get_bbox"
         => LET S(k) == {elements[i].bbox[k] : i \in 1..Len(elements)}
                Least(k) == CHOOSE m \in S(k) : \A x \in S(k) : m <= x
                Most(k) == CHOOSE m \in S(k) : \A x \in S(k) : m >= x
            IN /\ UNCHANGED <<session, fig>>
               /\ err' = "none"
               /\ ret' = IF elements = <<>> THEN <<Inf, Inf, -Inf, -Inf>>
                         ELSE <<Least(1), Least(2), Most(3), Most(4)>>]_vars

\* get_bbox() has returned the box of two elements, which is neither
\* element's own box.
C4_Witness ==
    /\ lastop.op = "get_bbox"
    /\ Len(elements) = 2
    /\ ret # elements[1].bbox
    /\ ret # elements[2].bbox

\* C5: add(e) sets the cursor and heading to what e's placement returns for
\* the cursor, heading and style parameters of before the call, puts e last
\* in the element list with the earlier elements as they were, and leaves
\* the snapshot stack and the anchors alone.
C5_AddPlacesAndAppends ==
    [][lastop'.op = "add"
         => LET pe == _place(Kind(lastop'.arg), here, theta, dwgparams)
            IN /\ <<here', theta'>> = pe.absdrop
               /\ Len(elements') = Len(elements) + 1
               /\ Last(elements') = pe
               /\ Front(elements') = elements
               /\ UNCHANGED <<_state, anchors>>]_vars

\* A second element has been added from a cursor or heading other than the
\* initial one, with a snapshot on the stack and an anchor set.
C5_Witness ==
    /\ lastop.op = "add"
    /\ lastop.from # <<<<0, 0>>, 0>>
    /\ Len(elements) = 2
    /\ _state # <<>>
    /\ anchors["a"] # Unset

\* C6: a draw() that names a backend other than the one of the session's
\* current canvas builds a canvas, and returns a canvas of the backend named.
C6_OtherTargetRebuilds ==
    [][(/\ lastop'.op = "draw"
        /\ lastop'.arg \in {"matplotlib", "svg"}
        /\ fig.kind # "none"
        /\ fig.kind # (IF lastop'.arg = "svg" THEN "svg" ELSE "mpl")
        /\ err' = "none")
         => /\ built' = built + 1
            /\ ret'.kind = (IF lastop'.arg = "svg" THEN "svg" ELSE "mpl")]_vars

\* C7: a draw() with no target that follows a draw() with no target builds
\* no canvas: the session's canvas was built once, by the first of the two,
\* and the second returns the canvas of the first.
C7_SecondDrawBuildsNothing ==
    [][(/\ lastop = OpArg("draw", "None")
        /\ err = "none"
        /\ lastop' = OpArg("draw", "None"))
         => (err' = "none" /\ built' = built /\ ret' = ret)]_vars

\* C8: getimage() and save() of a vector canvas leave the buffered list, the
\* bounding box, the scale, the frame flag and the background as they were,
\* and an export that follows an export yields the same document.
C8_SvgExportPure ==
    [][lastop'.op \in {"getimage", "save"}
         => /\ fig'.svgelements = fig.svgelements
            /\ fig'.bbox = fig.bbox
            /\ fig'.scale = fig.scale
            /\ fig'.showframe = fig.showframe
            /\ fig'.bgcolor = fig.bgcolor
            /\ fig' = fig
            /\ lastop.op \in {"getimage", "save"} => ret' = ret]_vars

\* A canvas with a background and a buffer that is not in z-order has been
\* exported.
C8_Witness ==
    /\ lastop.op \in {"getimage", "save"}
    /\ fig.bgcolor # ""
    /\ \E i, j \in 1..Len(fig.svgelements) :
          i < j /\ fig.svgelements[i][1] > fig.svgelements[j][1]
    /\ Len(ret.children) >= 2

\* C9: an export of a raster canvas that follows an export leaves the axis
\* limits and the image size as the earlier export left them.
C9_MplExportStable ==
    [][(/\ lastop.op \in {"getfig", "getimage", "save"}
        /\ lastop'.op \in {"getfig", "getimage", "save"})
         => /\ MplViewLim(fig') = MplViewLim(fig)
            /\ fig'.size = fig.size]_vars

\* C10: the children of the exported document, after the frame rectangle
\* when there is one, are the buffered nodes rearranged by a permutation
\* that puts lower z-orders first and keeps nodes of equal z-order in the
\* order of their submission.
C10_ExportStableSorted ==
    (lastop.op \in {"getimage", "save"})
      => LET b == fig.svgelements
             n == Len(b)
             skip == IF fig.showframe THEN 1 ELSE 0
             c == ret.children
         IN /\ Len(c) = n + skip
            /\ \E p \in [1..n -> 1..n] :
                  /\ \A i, j \in 1..n : i # j => p[i] # p[j]
                  /\ \A i \in 1..n : c[i + skip] = b[p[i]][2]
                  /\ \A i, j \in 1..n :
                        i < j => \/ b[p[i]][1] < b[p[j]][1]
                                 \/ b[p[i]][1] = b[p[j]][1] /\ p[i] < p[j]

\* An export of a buffer that is out of z-order and holds two different
\* nodes of one z-order.
C10_Witness ==
    /\ lastop.op \in {"getimage", "save"}
    /\ \E i, j \in 1..Len(fig.svgelements) :
          i < j /\ fig.svgelements[i][1] > fig.svgelements[j][1]
    /\ \E i, j \in 1..Len(fig.svgelements) :
          /\ i < j
          /\ fig.svgelements[i][1] = fig.svgelements[j][1]
          /\ fig.svgelements[i][2] # fig.svgelements[j][2]

\* C11: with the frame off, every primitive-drawing call on a vector canvas
\* (a text() of the empty string aside) adds one node to the buffer, and the
\* exported document has one child for every buffered node: n calls give n
\* drawable nodes.
C11_OneNodePerPrimitive ==
    [][/\ (/\ lastop'.op \in {"plot", "poly", "circle", "arrow", "arc", "text"}
           /\ lastop' # OpArg("text", ""))
          => Len(fig'.svgelements) = Len(fig.svgelements) + 1
       /\ (lastop'.op \in {"getimage", "save"} /\ ~fig.showframe)
          => Len(ret'.children) = Len(fig.svgelements)]_vars
\* C12: clear() leaves no primitive on the canvas and leaves the scale, the
\* frame flag and the background as they were; whatever is drawn next, the
\* export is the export of a newly made canvas of that configuration on
\* which the same is drawn.
C12_ClearKeepsConfiguration ==
    [][lastop'.op = "clear"
         => LET new == IF fig.kind = "svg"
                       THEN SvgBgcolor(SvgFigure(fig.bbox, 50, fig.showframe), fig.bgcolor)
                       ELSE MplBgcolor(MplFigure(fig.userfig, fig.bbox,
                                                 fig.inches_per_unit, fig.showframe),
                                       fig.facecolor)
            IN /\ Prims(fig') = 0
               /\ fig'.showframe = fig.showframe
               /\ fig.kind = "svg"
                  => (fig'.scale = fig.scale /\ fig'.bgcolor = fig.bgcolor)
               /\ fig.kind = "mpl"
                  => /\ fig'.inches_per_unit = fig.inches_per_unit
                     /\ fig'.facecolor = fig.facecolor
               /\ FigImage(fig', "svg") = FigImage(new, "svg")
               /\ \A in \in PlotInputs :
                     FigImage(FigPlot(fig', in[1], in[2], in[3], 2), "svg")
                       = FigImage(FigPlot(new, in[1], in[2], in[3], 2), "svg")]_vars

\* A canvas with a background, that held primitives and was exported, has
\* been cleared.
C12_Witness ==
    /\ lastop.op = "clear"
    /\ Prims(fig) = 0
    /\ IF fig.kind = "svg" THEN fig.bgcolor # "" ELSE fig.facecolor # ""
    /\ fig.kind = "mpl" => (~fig.userfig /\ fig.size # DefaultSize)
\* C13: an export of a vector canvas whose bounding box has an infinite
\* component does not fail and writes finite numbers only: the four viewBox
\* values, the width and the height.
C13_InfiniteBBoxExportsFinite ==
    [][(/\ lastop'.op \in {"getimage", "save"}
        /\ \E i \in 1..4 : IsInf(fig.bbox[i]))
         => /\ err' = "none"
            /\ \A i \in 1..4 : IsFinite(ret'.viewBox[i])
            /\ IsFinite(ret'.width)
            /\ IsFinite(ret'.height)]_vars
\* C14: when the raster library is unavailable, choosing the raster backend
\* is reported where it is chosen: use('matplotlib') raises and leaves the
\* default backend as it was, and no session is constructed with
\* canvas='matplotlib' without an error.
C14_RasterChoiceRejectedAtSelection ==
    /\ [][(lastop' = OpArg("use", "matplotlib") /\ ~mplFigure)
            => (err' # "none" /\ default_canvas' = default_canvas)]_vars
    /\ []((lastop.op = "init" /\ canvas = "matplotlib" /\ ~mplFigure) => err # "none")
\* C15: undo() on a built canvas of a drawing of two or more elements takes
\* the last element off the list; the canvas then holds one primitive for
\* each element left, in the order of the list, each the primitive that
\* element draws; the cursor and the heading are the exit state recorded on
\* the new last element, wherever the cursor was before; and the canvas has
\* the bounding box of the elements left.
C15_UndoRedrawsTheRest ==
    [][(lastop'.op = "undo" /\ fig.kind # "none" /\ Len(elements) >= 2)
         => /\ err' = "none"
            /\ elements' = SubSeq(elements, 1, Len(elements) - 1)
            /\ Len(Primitives(fig')) = Len(elements')
            /\ \A i \in 1..Len(elements') :
                  LET one == _draw(elements'[i],
                                   IF fig.kind = "svg" THEN SvgFigure(EmptyBBox, 50, FALSE)
                                   ELSE MplFigure(FALSE, NoBBox, 50, FALSE))
                  IN Primitives(fig')[i] = Primitives(one)[1]
            /\ here' = elements'[Len(elements')].absdrop[1]
            /\ theta' = elements'[Len(elements')].absdrop[2]
            /\ fig'.bbox = get_bbox(elements')]_vars

\* undo() has left two elements on a built canvas that holds their two
\* primitives, with a snapshot on the stack; the cursor is at the exit of
\* the second element.
C15_Witness ==
    /\ lastop.op = "undo"
    /\ err = "none"
    /\ Len(elements) = 2
    /\ fig.kind # "none"
    /\ Prims(fig) = 2
    /\ here = elements[2].absdrop[1]
    /\ _state # <<>>
    /\ elements[1].absdrop # elements[2].absdrop
\* C16: the path data plot() writes is a sequence of subpaths, each a move
\* command with a finite point and then line commands with finite points:
\* no token carries a NaN coordinate, the data starts with a move, every
\* move and every line command comes with its point, and the data has one
\* point for every point of the input that is not a marker.
C16_PathDataWellFormed ==
    [][lastop'.op = "plot"
         => LET d == fig'.svgelements[Len(fig'.svgelements)][2].d
                x == lastop'.arg[1]
                y == lastop'.arg[2]
                HasPoint(i) == d[i].t \in {"Mxy", "xy"}
            IN /\ err' = "none"
               /\ \A i \in 1..Len(d) :
                     /\ HasPoint(i) => (IsFinite(d[i].x) /\ IsFinite(d[i].y))
                     /\ d[i].t \in {"M", "L"}
                        => (i < Len(d) /\ d[i + 1].t = "xy")
                     /\ d[i].t = "xy" => (i > 1 /\ d[i - 1].t \in {"M", "L"})
               /\ d[1].t \in {"M", "Mxy"}
               /\ Cardinality({i \in 1..Len(d) : HasPoint(i)})
                    = Cardinality({i \in 1..Len(x) : ~IsNaN(x[i]) /\ ~IsNaN(y[i])})]_vars
\* C17: on the raster canvas, poly() with closed=False leaves the canvas as
\* plot() of the same vertices, style and z-order leaves it: the same
\* primitive, and no polygon.
C17_OpenPolyIsPlot ==
    [][lastop'.op = "poly"
         => \A v \in PolyInputs :
              fig' = MplPoly(fig, v, FALSE, FilledStyle, 1)
                => /\ fig' = MplPlot(fig, [i \in 1..Len(v) |-> v[i][1]],
                                          [i \in 1..Len(v) |-> v[i][2]], FilledStyle, 1)
                   /\ \A i \in 1..Len(fig'.artists) :
                         fig'.artists[i].type # "polygon"]_vars

\* C18: on the raster canvas, text() of the empty string adds no primitive
\* and leaves the canvas as it was.
C18_EmptyTextIsNoOp ==
    [][lastop' = OpArg("text", "") => fig' = fig]_vars
\* C19: arc() buffers exactly one curve node, ahead of the nodes of its
\* arrowhead.  With the span the angle from theta1 on to theta2, taken in
\* [0, 360): when the span is 0 the start and end points coincide and the
\* node is an ellipse; otherwise the node is one path with one arc command,
\* whose end is 0.1 or more from its start in some axis, whose large-arc
\* flag is 1 exactly when the span is 180 degrees or more, and whose sweep
\* flag is 1.
C19_ArcOneCurveNode ==
    [][lastop'.op = "arc"
         => LET in == lastop'.arg
                span == (in.theta2 - in.theta1) % 360
                n == Len(fig.svgelements)
                node == fig'.svgelements[n + 1][2]
                Toks(t) == {i \in 1..Len(node.d) : node.d[i].t = t}
            IN /\ err' = "none"
               /\ Len(fig'.svgelements) = n + (IF in.arrow = "None" THEN 1 ELSE 3)
               /\ SubSeq(fig'.svgelements, 1, n) = fig.svgelements
               /\ Curves(fig') = Curves(fig) \cup {n + 1}
               /\ node.tag = "ellipse" <=> span = 0
               /\ node.tag = "path"
                  => /\ Cardinality(Toks("a")) = 1
                     /\ \A i \in Toks("flags") :
                           /\ node.d[i].x = (IF span >= 180 THEN 1 ELSE 0)
                           /\ node.d[i].y = 1
                     /\ Cardinality(Toks("flags")) = 1
                     /\ \A i \in Toks("d") :
                           ~(Abs(node.d[i].x) < 10 /\ Abs(node.d[i].y) < 10)]_vars

\* An arc from 90 degrees on to 0 degrees with an arrowhead has been
\* buffered: its path has the large-arc flag, which shows only once the
\* start angle has been raised by a turn.
C19_Witness ==
    /\ lastop.op = "arc"
    /\ lastop.arg.theta1 = 90
    /\ lastop.arg.theta2 = 0
    /\ lastop.arg.arrow = "ccw"
    /\ Len(fig.svgelements) = 3
    /\ fig.svgelements[1][2].tag = "path"
    /\ \E i \in 1..Len(fig.svgelements[1][2].d) :
          fig.svgelements[1][2].d[i] = Tok("flags", 1, 1)
\* C20: whenever the session holds a built canvas, the canvas holds one
\* primitive for each element of the list, in the order of the list, each
\* the primitive that element draws.
C20_CanvasHoldsTheElements ==
    fig.kind # "none"
      => /\ Len(Primitives(fig)) = Len(elements)
         /\ \A i \in 1..Len(elements) :
               LET one == _draw(elements[i],
                                IF fig.kind = "svg" THEN SvgFigure(EmptyBBox, 50, FALSE)
                                ELSE MplFigure(FALSE, NoBBox, 50, FALSE))
               IN Primitives(fig)[i] = Primitives(one)[1]
\* C21: undo() on a session whose canvas is not built and that has two or
\* more elements succeeds and builds the canvas from the elements left; and
\* no undo() that takes an element off the list and leaves one leaves the
\* cursor and the heading anywhere but at the exit recorded on the new last
\* element.
C21_UndoOnUnbuiltCanvas ==
    [][lastop'.op = "undo"
         => /\ (fig.kind = "none" /\ Len(elements) >= 2)
               => /\ err' = "none"
                  /\ fig'.kind # "none"
                  /\ Len(Primitives(fig')) = Len(elements')
            /\ (Len(elements') < Len(elements) /\ elements' # <<>>)
               => /\ here' = elements'[Len(elements')].absdrop[1]
                  /\ theta' = elements'[Len(elements')].absdrop[2]]_vars
C23_VectorRejectsOtherFormats ==
    [][(/\ lastop'.op = "get_imagedata"
        /\ lastop'.arg # "svg"
        /\ \/ canvas = "svg"
           \/ canvas = "None" /\ default_canvas = "svg")
         => /\ err' # "none"
            /\ fig' = fig
            /\ <<elements', here', theta'>> = <<elements, here, theta>>]_vars
\* C24: save() draws when no canvas is built and draw() saves when an output
\* file is set, and every call of draw(), save(), get_imagedata() or the
\* exit of the context manager ends within four nested calls (the exit, its
\* save(), the draw() of that, and the save() of that), the canvas built or
\* not and the output file set or not: none runs into the recursion limit.
C24_NestedCallsBounded ==
    [][lastop'.op \in {"draw", "save", "get_imagedata", "exit"}
         => /\ err' # "RecursionError"
            /\ ret'.depth <= 4
            /\ (lastop'.op = "save" /\ fig.kind = "none" /\ err' = "none")
               => ret'.depth >= 2
            /\ (lastop'.op = "draw" /\ outfile /\ err' = "none")
               => ret'.depth >= 2]_vars

\* The exit of a session with an output file and no canvas built has come
\* back from four nested calls with a canvas.
C24_Witness ==
    /\ lastop.op = "exit"
    /\ outfile
    /\ err = "none"
    /\ ret.depth = 4
    /\ fig.kind # "none"
    /\ elements # <<>>
====
